---- MODULE Spec2Model ----
(***************************************************************************)
(* Email Digest Bot (main.py): spreadsheet offers carried by mail and      *)
(* offers of the comeback API are merged by normalized offer id, sent as   *)
(* one digest, and the ids already handled are kept in processed_ids.json. *)
(*                                                                         *)
(* Strings whose characters matter (offer ids) are sequences of one-       *)
(* character strings.  Python's None is the value None below; a numeric    *)
(* field is "truthy" when it is neither None nor 0.                        *)
(***************************************************************************)
EXTENDS Integers, Sequences, FiniteSets, TLC

VARIABLES
  disk,              \* processed_ids.json at rest
  disk0,             \* the document as it was when the current run started
  state,             \* run(): the dict returned by load_state
  pc,                \* position of run()
  inbox,             \* fetch_today_emails: the messages the search returned
  emails,            \* run(): new messages that carried spreadsheet files
  new_email_ids,     \* run(): their Message-IDs
  email_offers,      \* run(): offers parsed from the spreadsheets
  api_fetched,       \* run(): what fetch_api_comeback returned
  api_offers,        \* run(): api offers after the known-id filter
  merged,            \* run(): result of merge_offers
  chunks,            \* send_telegram: number of chunks of the message
  chunk_i,           \* send_telegram: chunks accepted by the transport so far
  outcome,           \* how the run ended
  downloads,         \* attachment files present in DOWNLOAD_DIR
  clock,             \* datetime.now(), counted in runs
  delivered,         \* normalized ids of the digests the transport has accepted in earlier runs
  TELEGRAM_CHAT_ID,  \* configuration: is a delivery target set
  api,               \* fetch_api_comeback and _api_request: their locals
  tg,                \* send_telegram: the text and the chunks cut from it
  sheet,             \* parse_not_purchased and _parse_api_offer: rows in, records out
  norm               \* normalize_offer_id: argument and result

vars == <<disk, disk0, state, pc, inbox, emails, new_email_ids, email_offers,
          api_fetched, api_offers, merged, chunks, chunk_i, outcome,
          downloads, clock, delivered, TELEGRAM_CHAT_ID, api, tg, sheet, norm>>

\* the locals of the functions that are also checked on their own
fnVars == <<api, tg, sheet, norm>>

NotCalled == [pc |-> "idle"]

FnIdle ==
  /\ api = NotCalled
  /\ tg = NotCalled
  /\ sheet = NotCalled
  /\ norm = NotCalled

\* ---------------------------------------------------------------- bounds
MaxEmailOffers == 2    \* length of the spreadsheet-origin sequence given to merge_offers
MaxApiOffers == 2      \* length of the api-origin sequence given to merge_offers
MaxApiResponse == 2    \* offers one fetch_api_comeback call returns in a run
MaxRuns == 3           \* runs of the bot
MaxChunks == 2         \* chunks of one digest

\* ---------------------------------------------------------------- strings
None == -1

Truthy(v) == v /= None /\ v /= 0

\* str.strip() and str.lstrip() remove blanks and line breaks
IsSpace(c) == c \in {" ", "\n"}

LowerChar(c) ==
  CASE c = "A" -> "a"
    [] c = "B" -> "b"
    [] OTHER -> c

lower(s) == [i \in 1..Len(s) |-> LowerChar(s[i])]

RECURSIVE lstrip(_)
lstrip(s) ==
  IF s /= <<>> /\ IsSpace(Head(s)) THEN lstrip(Tail(s)) ELSE s

RECURSIVE rstrip(_)
rstrip(s) ==
  IF s /= <<>> /\ IsSpace(s[Len(s)]) THEN rstrip(SubSeq(s, 1, Len(s) - 1)) ELSE s

strip(s) == rstrip(lstrip(s))

RECURSIVE rstrip_slash(_)
rstrip_slash(s) ==
  IF s /= <<>> /\ s[Len(s)] = "/" THEN rstrip_slash(SubSeq(s, 1, Len(s) - 1)) ELSE s

normalize_offer_id(oid) == rstrip_slash(strip(lower(oid)))

\* ---------------------------------------------------------------- offers
ComebackOffer(id, brand, model, salon, category, url, source, price, mileage, year) ==
  [offer_id |-> id, brand |-> brand, model |-> model, salon |-> salon,
   category |-> category, mobile_url |-> url, source |-> source,
   price |-> price, mileage |-> mileage, year |-> year]

Id1 == <<"1", "-", "a">>
Id1Variant == <<" ", "1", "-", "A", "/">>
Id2 == <<"2", "-", "b">>
RawIds == {Id1, Id1Variant, Id2}

\* spreadsheet-origin records
EmailPool ==
  {ComebackOffer(id, "TOYOTA", "CAMRY", "EKT", "not_purchased", "m/toyota", "email",
                 None, None, None) : id \in RawIds}
  \cup
  {ComebackOffer(id, "KIA", "RIO", "CHL", "back_on_sale", "m/kia", "email",
                 1, None, 1) : id \in RawIds}

\* api-origin records
ApiPool ==
  {ComebackOffer(id, "BMW", "X5", "KRD", "back_on_sale", "m/bmw", "api",
                 2, 2, None) : id \in RawIds}
  \cup
  {ComebackOffer(id, "AUDI", "A4", "???", "not_purchased", "m/audi", "api",
                 None, 0, 3) : id \in RawIds}

SeqsUpTo(S, n) == UNION {[1..k -> S] : k \in 0..n}

Range(s) == {s[i] : i \in 1..Len(s)}

\* ---------------------------------------------------------------- merge
\* the dict `merged` of merge_offers: entries [key, val] in insertion order
KeyIndex(d, key) ==
  IF \E i \in 1..Len(d) : d[i].key = key
  THEN CHOOSE i \in 1..Len(d) : d[i].key = key
  ELSE 0

\* merged[key] = o
DictSet(d, key, o) ==
  IF KeyIndex(d, key) = 0
  THEN Append(d, [key |-> key, val |-> o])
  ELSE [d EXCEPT ![KeyIndex(d, key)].val = o]

EnrichOverwrite(existing, o) ==
  [existing EXCEPT !.source = "both",
                   !.price = IF Truthy(o.price) THEN o.price ELSE @,
                   !.mileage = IF Truthy(o.mileage) THEN o.mileage ELSE @,
                   !.year = IF Truthy(o.year) THEN o.year ELSE @]

\* lines 532-539: mark as "both", fill the numeric fields that are not set
Enrich(existing, o) ==
  [existing EXCEPT !.source = "both",
                   !.price = IF Truthy(o.price) /\ ~Truthy(@) THEN o.price ELSE @,
                   !.mileage = IF Truthy(o.mileage) /\ ~Truthy(@) THEN o.mileage ELSE @,
                   !.year = IF Truthy(o.year) /\ ~Truthy(@) THEN o.year ELSE @]

MergeEmailOfferRawKey(d, o) == DictSet(d, o.offer_id, o)

\* lines 523-525
MergeEmailOffer(d, o) == DictSet(d, normalize_offer_id(o.offer_id), o)

\* lines 528-541
MergeApiOffer(d, o) ==
  LET key == normalize_offer_id(o.offer_id)
      i == KeyIndex(d, key)
  IN IF i /= 0
     THEN [d EXCEPT ![i].val = Enrich(d[i].val, o)]
     ELSE DictSet(d, key, o)

RECURSIVE IndexEmail(_, _)
IndexEmail(d, s) ==
  IF s = <<>> THEN d ELSE IndexEmail(MergeEmailOffer(d, Head(s)), Tail(s))

RECURSIVE IndexApi(_, _)
IndexApi(d, s) ==
  IF s = <<>> THEN d ELSE IndexApi(MergeApiOffer(d, Head(s)), Tail(s))

\* list(merged.values())
merge_offers(email_seq, api_seq) ==
  LET d == IndexApi(IndexEmail(<<>>, email_seq), api_seq)
  IN [i \in 1..Len(d) |-> d[i].val]

NormIds(s) == {normalize_offer_id(s[i].offer_id) : i \in 1..Len(s)}


\* ---------------------------------------------------------------- state document
AllKeys == {"email_message_ids", "api_offer_ids", "api_last_fetch"}

\* the keys whose value the run reads as a list of identifiers
ListKeys == {"email_message_ids", "api_offer_ids"}

\* processed_ids.json: kind is what json.load makes of the file; has is the set
\* of keys a dict document holds (a key it lacks carries the default value);
\* nonlist is the set of keys whose JSON value is null or a number, not a list
Doc(kind, has, mids, aids, last) ==
  [kind |-> kind, has |-> has, nonlist |-> {}, email_message_ids |-> mids,
   api_offer_ids |-> aids, api_last_fetch |-> last]

MissingDoc == Doc("missing", {}, {}, {}, None)
UnparsableDoc == Doc("unparsable", {}, {}, {}, None)
\* valid JSON that is neither an array nor an object
ScalarDoc == Doc("scalar", {}, {}, {}, None)
\* an object in which the keys of nonlist hold null or a number
MalformedDoc(has, nonlist, mids, aids) ==
  [Doc("dict", has,
       IF "email_message_ids" \in has \ nonlist THEN mids ELSE {},
       IF "api_offer_ids" \in has \ nonlist THEN aids ELSE {}, None)
     EXCEPT !.nonlist = nonlist]
LegacyDoc(mids) == Doc("list", {}, mids, {}, None)

DefaultState ==
  [email_message_ids |-> {}, api_offer_ids |-> {}, api_last_fetch |-> None,
   nonlist |-> {}]

load_state_drops_legacy(doc) ==
  IF doc.kind = "dict"
  THEN [email_message_ids |-> doc.email_message_ids,
        api_offer_ids |-> doc.api_offer_ids,
        api_last_fetch |-> doc.api_last_fetch,
        nonlist |-> doc.nonlist \cap doc.has]
  ELSE DefaultState

load_state(doc) ==
  CASE doc.kind = "list" ->
         [email_message_ids |-> doc.email_message_ids, api_offer_ids |-> {},
          api_last_fetch |-> None, nonlist |-> {}]
    [] doc.kind = "dict" ->
         [email_message_ids |->
            IF "email_message_ids" \in doc.has THEN doc.email_message_ids ELSE {},
          api_offer_ids |->
            IF "api_offer_ids" \in doc.has THEN doc.api_offer_ids ELSE {},
          api_last_fetch |->
            IF "api_last_fetch" \in doc.has THEN doc.api_last_fetch ELSE None,
          nonlist |-> doc.nonlist \cap doc.has]
    [] OTHER -> DefaultState

save_state(st) ==
  [Doc("dict", AllKeys, st.email_message_ids, st.api_offer_ids, st.api_last_fetch)
     EXCEPT !.nonlist = st.nonlist]

\* ---------------------------------------------------------------- mail
Msgs == {"m1", "m2"}

\* order in which the IMAP search lists the messages
MsgOrder == <<"m1", "m2">>

\* parse_not_purchased / parse_back_on_sale applied to the files of a message:
\* m1 carries one listing, m2 a spreadsheet without a usable row
MsgOffers(m) ==
  IF m = "m1"
  THEN <<ComebackOffer(Id1, "TOYOTA", "CAMRY", "EKT", "not_purchased", "m/toyota",
                       "email", None, None, None)>>
  ELSE <<>>

NewMessagesNoSkip(found, processed) ==
  SelectSeq(MsgOrder, LAMBDA m : m \in found)

\* fetch_today_emails, lines 205-233: messages of the search that are not processed
NewMessages(found, processed) ==
  SelectSeq(MsgOrder, LAMBDA m : m \in found /\ m \notin processed)

RECURSIVE ParseAll(_)
ParseAll(ms) ==
  IF ms = <<>> THEN <<>> ELSE MsgOffers(Head(ms)) \o ParseAll(Tail(ms))

\* ---------------------------------------------------------------- api
\* offers the comeback API can return in a run
RunApiPool ==
  {ComebackOffer(Id1Variant, "BMW", "X5", "KRD", "back_on_sale", "m/bmw", "api", 2, 2, None),
   ComebackOffer(Id2, "BMW", "X5", "KRD", "back_on_sale", "m/bmw", "api", 2, 2, None),
   ComebackOffer(Id2, "AUDI", "A4", "???", "not_purchased", "m/audi", "api", None, 0, 3)}

FilterSentNone(offers, sent_api_ids) == offers

\* run(), lines 670-673
FilterSent(offers, sent_api_ids) ==
  SelectSeq(offers, LAMBDA o : normalize_offer_id(o.offer_id) \notin sent_api_ids)

\* ---------------------------------------------------------------- commit
CommitStateMergedIds(st, new_ids, offers, all_merged, now) ==
  [email_message_ids |-> st.email_message_ids \cup new_ids,
   api_offer_ids |-> st.api_offer_ids \cup NormIds(all_merged),
   api_last_fetch |-> now,
   nonlist |-> {}]

\* run(), lines 706-709
CommitState(st, new_ids, offers, all_merged, now) ==
  [email_message_ids |-> st.email_message_ids \cup new_ids,
   api_offer_ids |-> st.api_offer_ids \cup NormIds(offers),
   api_last_fetch |-> now,
   nonlist |-> {}]

\* run(), lines 705-710: the in-memory state after step 7
StateAfterSend(success, st, new_ids, offers, all_merged, now) ==
  IF success THEN CommitState(st, new_ids, offers, all_merged, now) ELSE st

DiskAfterSendAlways(success, st, d) == save_state(st)

\* run(), lines 705-710: the document after step 7
DiskAfterSend(success, st, d) == IF success THEN save_state(st) ELSE d

\* ---------------------------------------------------------------- run()
InitDocs ==
  {MissingDoc, UnparsableDoc, Doc("dict", {}, {}, {}, None)}
  \cup {LegacyDoc(S) : S \in SUBSET Msgs}
  \cup {Doc("dict", AllKeys, S, {}, None) : S \in SUBSET Msgs}

RunLocalsReset ==
  /\ inbox' = {}
  /\ emails' = <<>>
  /\ new_email_ids' = {}
  /\ email_offers' = <<>>
  /\ api_fetched' = <<>>
  /\ api_offers' = <<>>
  /\ merged' = <<>>
  /\ chunks' = 0
  /\ chunk_i' = 0
  /\ outcome' = "running"

Init ==
  /\ disk \in InitDocs
  /\ disk0 = disk
  /\ state = DefaultState
  /\ pc = "idle"
  /\ inbox = {}
  /\ emails = <<>>
  /\ new_email_ids = {}
  /\ email_offers = <<>>
  /\ api_fetched = <<>>
  /\ api_offers = <<>>
  /\ merged = <<>>
  /\ chunks = 0
  /\ chunk_i = 0
  /\ outcome = "none"
  /\ downloads = {}
  /\ clock = 0
  /\ delivered = {}
  /\ TELEGRAM_CHAT_ID \in BOOLEAN
  /\ FnIdle

\* line 645
LoadState ==
  /\ pc \in {"idle", "done"}
  /\ clock < MaxRuns
  /\ clock' = clock + 1
  /\ state' = load_state(disk)
  /\ disk0' = disk
  /\ RunLocalsReset
  /\ pc' = "fetch_emails"
  /\ UNCHANGED <<disk, downloads, delivered, TELEGRAM_CHAT_ID>>
  /\ UNCHANGED fnVars

\* line 648
FetchTodayEmails ==
  /\ pc = "fetch_emails"
  /\ \E found \in SUBSET Msgs :
       /\ inbox' = found
       /\ emails' = NewMessages(found, state.email_message_ids)
       /\ new_email_ids' = Range(emails')
       /\ downloads' = downloads \cup Range(emails')
  /\ pc' = "parse"
  /\ UNCHANGED <<disk, disk0, state, email_offers, api_fetched, api_offers, merged,
                 chunks, chunk_i, outcome, clock, delivered, TELEGRAM_CHAT_ID>>
  /\ UNCHANGED fnVars

\* lines 652-662
ParseFiles ==
  /\ pc = "parse"
  /\ email_offers' = ParseAll(emails)
  /\ pc' = "fetch_api"
  /\ UNCHANGED <<disk, disk0, state, inbox, emails, new_email_ids, api_fetched,
                 api_offers, merged, chunks, chunk_i, outcome, downloads, clock,
                 delivered, TELEGRAM_CHAT_ID>>
  /\ UNCHANGED fnVars

\* line 667
FetchApi ==
  /\ pc = "fetch_api"
  /\ \E resp \in SeqsUpTo(RunApiPool, MaxApiResponse) :
       /\ api_fetched' = resp
       /\ api_offers' = resp
  /\ pc' = "filter"
  /\ UNCHANGED <<disk, disk0, state, inbox, emails, new_email_ids, email_offers,
                 merged, chunks, chunk_i, outcome, downloads, clock, delivered,
                 TELEGRAM_CHAT_ID>>
  /\ UNCHANGED fnVars

\* lines 670-679
FilterAndMerge ==
  /\ pc = "filter"
  /\ api_offers' = FilterSent(api_offers, state.api_offer_ids)
  /\ merged' = merge_offers(email_offers, api_offers')
  /\ pc' = "decide"
  /\ UNCHANGED <<disk, disk0, state, inbox, emails, new_email_ids, email_offers,
                 api_fetched, chunks, chunk_i, outcome, downloads, clock,
                 delivered, TELEGRAM_CHAT_ID>>
  /\ UNCHANGED fnVars

\* lines 681-684
NoNewData ==
  /\ pc = "decide"
  /\ merged = <<>> /\ emails = <<>>
  /\ disk' = save_state(state)
  /\ outcome' = "no_data"
  /\ pc' = "done"
  /\ UNCHANGED <<disk0, state, inbox, emails, new_email_ids, email_offers,
                 api_fetched, api_offers, merged, chunks, chunk_i, downloads,
                 clock, delivered, TELEGRAM_CHAT_ID>>
  /\ UNCHANGED fnVars

\* lines 686-691
NoParseableOffers ==
  /\ pc = "decide"
  /\ merged = <<>> /\ emails /= <<>>
  /\ state' = [state EXCEPT !.email_message_ids = @ \cup new_email_ids]
  /\ disk' = save_state(state')
  /\ outcome' = "no_offers"
  /\ pc' = "done"
  /\ UNCHANGED <<disk0, inbox, emails, new_email_ids, email_offers, api_fetched,
                 api_offers, merged, chunks, chunk_i, downloads, clock,
                 delivered, TELEGRAM_CHAT_ID>>
  /\ UNCHANGED fnVars

\* send_telegram, lines 603-605: no delivery target, the text is printed
SendLocalOnly ==
  /\ pc = "decide"
  /\ merged /= <<>>
  /\ ~TELEGRAM_CHAT_ID
  /\ pc' = "sent_fail"
  /\ UNCHANGED <<disk, disk0, state, inbox, emails, new_email_ids, email_offers,
                 api_fetched, api_offers, merged, chunks, chunk_i, outcome,
                 downloads, clock, delivered, TELEGRAM_CHAT_ID>>
  /\ UNCHANGED fnVars

\* send_telegram, lines 607-615: the message is cut into chunks
StartSend ==
  /\ pc = "decide"
  /\ merged /= <<>>
  /\ TELEGRAM_CHAT_ID
  /\ \E n \in 1..MaxChunks : chunks' = n
  /\ chunk_i' = 0
  /\ pc' = "sending"
  /\ UNCHANGED <<disk, disk0, state, inbox, emails, new_email_ids, email_offers,
                 api_fetched, api_offers, merged, outcome, downloads, clock,
                 delivered, TELEGRAM_CHAT_ID>>
  /\ UNCHANGED fnVars

\* send_telegram, lines 617-637: one chunk is posted, the transport accepts it or not
SendChunk ==
  /\ pc = "sending"
  /\ \E ok \in BOOLEAN :
       IF ok
       THEN /\ chunk_i' = chunk_i + 1
            /\ pc' = IF chunk_i + 1 = chunks THEN "sent_ok" ELSE "sending"
       ELSE /\ chunk_i' = chunk_i
            /\ pc' = "sent_fail"
  /\ UNCHANGED <<disk, disk0, state, inbox, emails, new_email_ids, email_offers,
                 api_fetched, api_offers, merged, chunks, outcome, downloads,
                 clock, delivered, TELEGRAM_CHAT_ID>>
  /\ UNCHANGED fnVars

\* lines 704-712
SaveAfterSend ==
  /\ pc \in {"sent_ok", "sent_fail"}
  /\ state' = StateAfterSend(pc = "sent_ok", state, new_email_ids, api_offers, merged, clock)
  /\ disk' = DiskAfterSend(pc = "sent_ok", state', disk)
  /\ outcome' = IF pc = "sent_ok" THEN "sent" ELSE "failed"
  /\ delivered' = IF pc = "sent_ok" THEN delivered \cup NormIds(merged) ELSE delivered
  /\ pc' = "cleanup"
  /\ UNCHANGED <<disk0, inbox, emails, new_email_ids, email_offers, api_fetched,
                 api_offers, merged, chunks, chunk_i, downloads, clock,
                 TELEGRAM_CHAT_ID>>
  /\ UNCHANGED fnVars

\* lines 714-719
Cleanup ==
  /\ pc = "cleanup"
  /\ downloads' = downloads \ Range(emails)
  /\ pc' = "done"
  /\ UNCHANGED <<disk, disk0, state, inbox, emails, new_email_ids, email_offers,
                 api_fetched, api_offers, merged, chunks, chunk_i, outcome, clock,
                 delivered, TELEGRAM_CHAT_ID>>
  /\ UNCHANGED fnVars

Next ==
  \/ LoadState
  \/ FetchTodayEmails
  \/ ParseFiles
  \/ FetchApi
  \/ FilterAndMerge
  \/ NoNewData
  \/ NoParseableOffers
  \/ SendLocalOnly
  \/ StartSend
  \/ SendChunk
  \/ SaveAfterSend
  \/ Cleanup

Spec == Init /\ [][Next]_vars

\* ---------------------------------------------------------------- merge_offers alone
InitMerge ==
  /\ disk = MissingDoc
  /\ disk0 = MissingDoc
  /\ state = DefaultState
  /\ pc = "merge_only"
  /\ inbox = {}
  /\ emails = <<>>
  /\ new_email_ids = {}
  /\ email_offers \in SeqsUpTo(EmailPool, MaxEmailOffers)
  /\ api_fetched = <<>>
  /\ api_offers \in SeqsUpTo(ApiPool, MaxApiOffers)
  /\ merged = <<>>
  /\ chunks = 0
  /\ chunk_i = 0
  /\ outcome = "none"
  /\ downloads = {}
  /\ clock = 0
  /\ delivered = {}
  /\ TELEGRAM_CHAT_ID = TRUE
  /\ FnIdle

\* merge_offers(email_offers, api_offers)
MergeOnly ==
  /\ pc = "merge_only"
  /\ merged' = merge_offers(email_offers, api_offers)
  /\ pc' = "merge_done"
  /\ UNCHANGED <<disk, disk0, state, inbox, emails, new_email_ids, email_offers,
                 api_fetched, api_offers, chunks, chunk_i, outcome, downloads,
                 clock, delivered, TELEGRAM_CHAT_ID>>
  /\ UNCHANGED fnVars

NextMerge == MergeOnly

SpecMerge == InitMerge /\ [][NextMerge]_vars


\* ---------------------------------------------------------------- _parse_api_offer
\* a value int() cannot convert (a non-numeric string)
NonNumeric == -2

\* one element of the response's item list: the fields _parse_api_offer reads;
\* id <<>> is an item without offer.id
ApiItem(id, price, mileage, year) ==
  [id |-> id, price |-> price, mileage |-> mileage, year |-> year]

\* lines 413-432: `if v: v = int(v) else: v = None`
IntOrNone(v) == IF Truthy(v) THEN v ELSE None

\* lines 377-454: "none" is the return of None, "raise" the ValueError of int()
_parse_api_offer(item) ==
  IF item.id = <<>> THEN [tag |-> "none"]
  ELSE IF NonNumeric \in {item.price, item.mileage, item.year} THEN [tag |-> "raise"]
  ELSE [tag |-> "offer",
        offer |-> ComebackOffer(item.id, "BMW", "X5", "KRD", "back_on_sale", "m/bmw",
                                "api", IntOrNone(item.price), IntOrNone(item.mileage),
                                IntOrNone(item.year))]

\* lines 500-503 over items none of which raises
RECURSIVE ParseItems(_)
ParseItems(items) ==
  IF items = <<>> THEN <<>>
  ELSE LET r == _parse_api_offer(Head(items))
       IN (IF r.tag = "offer" THEN <<r.offer>> ELSE <<>>) \o ParseItems(Tail(items))

\* ---------------------------------------------------------------- fetch_api_comeback
PageSize == 2          \* page_size (50 in the code), scaled down
MaxTotal == 5          \* largest pagination.total_count the endpoint reports

\* what one HTTP attempt can end in, other than a response: the HTTPError
\* codes (401; 429, 500, 502, 503; any other, here 404 and 504) and a
\* URLError, timeout or unreadable body
FailureKinds == {"401", "429", "500", "502", "503", "404", "504", "neterr"}

RetryAlsoThird(kind, attempt) ==
  /\ kind /= "401"
  /\ attempt < 3
  /\ kind \in {"429", "500", "502", "503", "neterr"}

\* _api_request, lines 362-374: is the request made again after this failure
Retry(kind, attempt) ==
  /\ kind /= "401"
  /\ attempt < 2
  /\ kind \in {"429", "500", "502", "503", "neterr"}

StopAfterOffByOne(page, n_items, total) ==
  \/ n_items = 0
  \/ page * PageSize > total
  \/ n_items < PageSize

\* lines 495 and 509: does the loop end after this page
StopAfter(page, n_items, total) ==
  \/ n_items = 0
  \/ page * PageSize >= total
  \/ n_items < PageSize

AccumulateOverwrites(all_offers, items) == ParseItems(items)

\* lines 500-503
Accumulate(all_offers, items) == all_offers \o ParseItems(items)

\* items the endpoint returns in SpecApi (none of them makes the parser raise)
PageItems ==
  {ApiItem(Id2, 2, 2, None), ApiItem(Id1Variant, None, 0, 3), ApiItem(<<>>, 2, 2, 2)}

ApiStart(session) ==
  [pc |-> "start", session |-> session, page |-> 1, attempt |-> 1, tries |-> 0,
   first |-> "none", last |-> "none", all_offers |-> <<>>, pages |-> <<>>,
   requested |-> 0, failed_page |-> 0, n_items |-> 0, total |-> 0]

InitApi ==
  /\ disk = MissingDoc
  /\ disk0 = MissingDoc
  /\ state = DefaultState
  /\ pc = "fetch_api"
  /\ inbox = {}
  /\ emails = <<>>
  /\ new_email_ids = {}
  /\ email_offers \in {<<>>, MsgOffers("m1")}
  /\ api_fetched = <<>>
  /\ api_offers = <<>>
  /\ merged = <<>>
  /\ chunks = 0
  /\ chunk_i = 0
  /\ outcome = "running"
  /\ downloads = {}
  /\ clock = 1
  /\ delivered = {}
  /\ TELEGRAM_CHAT_ID = TRUE
  /\ api \in {ApiStart(session) : session \in BOOLEAN}
  /\ tg = NotCalled
  /\ sheet = NotCalled
  /\ norm = NotCalled

runVars == <<disk, disk0, state, pc, inbox, emails, new_email_ids, email_offers,
             api_fetched, api_offers, merged, chunks, chunk_i, outcome,
             downloads, clock, delivered, TELEGRAM_CHAT_ID>>

\* lines 459-461: VERTIS_SESSION_ID is not set
ApiNoSession ==
  /\ api.pc = "start"
  /\ ~api.session
  /\ api' = [api EXCEPT !.pc = "returned"]
  /\ UNCHANGED <<runVars, tg, sheet, norm>>

\* lines 474-488: the loop is entered, the first page is asked for
ApiFirstRequest ==
  /\ api.pc = "start"
  /\ api.session
  /\ api' = [api EXCEPT !.pc = "request", !.requested = 1]
  /\ UNCHANGED <<runVars, tg, sheet, norm>>

\* _api_request, lines 355-374: the attempt fails; it is made again or None is
\* returned, and on None the loop ends (lines 489-492)
ApiAttemptFails ==
  /\ api.pc = "request"
  /\ \E kind \in FailureKinds :
       api' = [api EXCEPT
                 !.tries = @ + 1,
                 !.first = IF api.tries = 0 THEN kind ELSE @,
                 !.last = kind,
                 !.attempt = IF Retry(kind, api.attempt) THEN @ + 1 ELSE @,
                 !.pc = IF Retry(kind, api.attempt) THEN "request" ELSE "returned",
                 !.failed_page = IF Retry(kind, api.attempt) THEN 0 ELSE api.page]
  /\ UNCHANGED <<runVars, tg, sheet, norm>>

\* lines 353-354 and 494-511: the attempt returns a page
ApiPageReceived ==
  /\ api.pc = "request"
  /\ \E items \in SeqsUpTo(PageItems, PageSize), total \in 0..MaxTotal :
       LET stop == StopAfter(api.page, Len(items), total)
       IN api' = [api EXCEPT
                    !.tries = IF stop THEN @ + 1 ELSE 0,
                    !.first = IF stop THEN (IF api.tries = 0 THEN "ok" ELSE @) ELSE "none",
                    !.last = IF stop THEN "ok" ELSE "none",
                    !.attempt = IF stop THEN @ ELSE 1,
                    !.all_offers = Accumulate(@, items),
                    !.pages = Append(@, items),
                    !.n_items = Len(items),
                    !.total = total,
                    !.page = IF stop THEN @ ELSE @ + 1,
                    !.requested = IF stop THEN @ ELSE @ + 1,
                    !.pc = IF stop THEN "returned" ELSE "request"]
  /\ UNCHANGED <<runVars, tg, sheet, norm>>

\* run(), line 667: api_offers = fetch_api_comeback()
ApiReturn ==
  /\ api.pc = "returned"
  /\ pc = "fetch_api"
  /\ api_fetched' = api.all_offers
  /\ api_offers' = api.all_offers
  /\ pc' = "filter"
  /\ UNCHANGED <<disk, disk0, state, inbox, emails, new_email_ids, email_offers,
                 merged, chunks, chunk_i, outcome, downloads, clock, delivered,
                 TELEGRAM_CHAT_ID, fnVars>>

NextApi ==
  \/ ApiNoSession
  \/ ApiFirstRequest
  \/ ApiAttemptFails
  \/ ApiPageReceived
  \/ ApiReturn
  \/ FilterAndMerge

SpecApi == InitApi /\ [][NextApi]_vars

\* ---------------------------------------------------------------- load_state alone
\* every content processed_ids.json can have
LoadDocs ==
  {MissingDoc, UnparsableDoc, ScalarDoc}
  \cup {LegacyDoc(S) : S \in SUBSET Msgs}
  \cup {MalformedDoc(has, nl, S, A) :
          has \in SUBSET AllKeys, nl \in SUBSET ListKeys, S \in SUBSET Msgs,
          A \in SUBSET {normalize_offer_id(Id1), normalize_offer_id(Id2)}}

InitLoad ==
  /\ disk \in {d \in LoadDocs : d.nonlist \subseteq d.has}
  /\ disk0 = disk
  /\ state = DefaultState
  /\ pc = "idle"
  /\ inbox = {}
  /\ emails = <<>>
  /\ new_email_ids = {}
  /\ email_offers = <<>>
  /\ api_fetched = <<>>
  /\ api_offers = <<>>
  /\ merged = <<>>
  /\ chunks = 0
  /\ chunk_i = 0
  /\ outcome = "none"
  /\ downloads = {}
  /\ clock = 0
  /\ delivered = {}
  /\ TELEGRAM_CHAT_ID = FALSE
  /\ FnIdle

\* fetch_today_emails, line 184: set(state.get("email_message_ids", [])) raises
\* TypeError when the value is null or a number
ReadProcessed ==
  /\ pc = "fetch_emails"
  /\ IF "email_message_ids" \in state.nonlist
     THEN pc' = "raised" /\ outcome' = "TypeError"
     ELSE pc' = "filter" /\ outcome' = outcome
  /\ UNCHANGED <<disk, disk0, state, inbox, emails, new_email_ids, email_offers,
                 api_fetched, api_offers, merged, chunks, chunk_i, downloads,
                 clock, delivered, TELEGRAM_CHAT_ID>>
  /\ UNCHANGED fnVars

\* run(), line 670: set(state.get("api_offer_ids", [])) raises likewise
ReadSentApi ==
  /\ pc = "filter"
  /\ IF "api_offer_ids" \in state.nonlist
     THEN pc' = "raised" /\ outcome' = "TypeError"
     ELSE pc' = "done" /\ outcome' = "read"
  /\ UNCHANGED <<disk, disk0, state, inbox, emails, new_email_ids, email_offers,
                 api_fetched, api_offers, merged, chunks, chunk_i, downloads,
                 clock, delivered, TELEGRAM_CHAT_ID>>
  /\ UNCHANGED fnVars

NextLoad == LoadState \/ ReadProcessed \/ ReadSentApi

SpecLoad == InitLoad /\ [][NextLoad]_vars

\* ---------------------------------------------------------------- spreadsheet rows
MaxRows == 2           \* data rows of a sheet
MaxItems == 3          \* items of one API page

UpperChar(c) ==
  CASE c = "a" -> "A"
    [] c = "b" -> "B"
    [] c = "x" -> "X"
    [] OTHER -> c

upper(s) == [i \in 1..Len(s) |-> UpperChar(s[i])]

IsDigit(c) == c \in {"0", "1", "2", "3", "4", "5", "6", "7", "8", "9"}

\* `sub in s`
Contains(sub, s) ==
  \E i \in 0..(Len(s) - Len(sub)) : SubSeq(s, i + 1, i + Len(sub)) = sub

\* s.split("/")[-1]
RECURSIVE LastSegment(_)
LastSegment(s) ==
  IF s = <<>> THEN <<>>
  ELSE IF s[Len(s)] = "/" THEN <<>>
  ELSE Append(LastSegment(SubSeq(s, 1, Len(s) - 1)), s[Len(s)])

\* s.split()[0], <<>> when split() is empty
RECURSIVE UntilSpace(_)
UntilSpace(s) ==
  IF s = <<>> \/ IsSpace(Head(s)) THEN <<>> ELSE <<Head(s)>> \o UntilSpace(Tail(s))

FirstWord(s) == UntilSpace(lstrip(s))

\* s.replace(old, new)
RECURSIVE Replace(_, _, _)
Replace(s, old, new) ==
  IF Len(s) < Len(old) THEN s
  ELSE IF SubSeq(s, 1, Len(old)) = old
       THEN new \o Replace(SubSeq(s, Len(old) + 1, Len(s)), old, new)
       ELSE <<Head(s)>> \o Replace(Tail(s), old, new)

\* a cell of a row: empty, a number, text, or a =HYPERLINK("v", ...) formula
NoneCell == [t |-> "none", v |-> <<>>]
NumCell == [t |-> "num", v |-> <<>>]
StrCell(v) == [t |-> "str", v |-> v]
FormulaCell(v) == [t |-> "formula", v |-> v]

\* lines 106-112
extract_url(val) == IF val.t \in {"str", "formula"} THEN val.v ELSE <<>>

\* lines 115-124
extract_offer_id(url) ==
  IF url = <<>> THEN <<>>
  ELSE LET last == LastSegment(rstrip_slash(url))
       IN IF "-" \in Range(last) /\ (\E c \in Range(last) : IsDigit(c))
          THEN last ELSE <<>>

\* "https://auto.ru/" and "https://m.auto.ru/", shortened
AutoRu == <<"a", "/">>
MAutoRu == <<"m", "a", "/">>

\* lines 132-136
make_mobile_link(url) == IF url = <<>> THEN <<>> ELSE Replace(url, AutoRu, MAutoRu)

\* lines 139-150, shortened to two names
SALON_SHORT ==
  <<[key |-> <<"a", "b">>, code |-> <<"E", "K", "T">>],
    [key |-> <<"b", "b">>, code |-> <<"K", "R", "D">>]>>

Unknown == <<"?", "?", "?">>

\* lines 153-161: "raise" is the AttributeError of name.lower() on a cell that
\* is not text, or the IndexError of name.split()[0] on whitespace
short_salon(name) ==
  IF name.t = "none" \/ (name.t = "str" /\ name.v = <<>>)
  THEN [tag |-> "ok", v |-> Unknown]
  ELSE IF name.t /= "str" THEN [tag |-> "raise"]
  ELSE LET lw == strip(lower(name.v))
           hits == {i \in 1..Len(SALON_SHORT) : Contains(SALON_SHORT[i].key, lw)}
       IN IF hits /= {}
          THEN [tag |-> "ok",
                v |-> SALON_SHORT[CHOOSE i \in hits : \A j \in hits : i <= j].code]
          ELSE IF FirstWord(name.v) = <<>> THEN [tag |-> "raise"]
          ELSE [tag |-> "ok",
                v |-> upper(SubSeq(FirstWord(name.v), 1,
                                   IF Len(FirstWord(name.v)) < 3
                                   THEN Len(FirstWord(name.v)) ELSE 3))]

Row(link, salon) == [link |-> link, salon |-> salon]

RowStepNoSeen(acc, row) ==
  LET url == extract_url(row.link)
      offer_id == extract_offer_id(url)
  IN IF acc.raised \/ offer_id = <<>> THEN acc
     ELSE LET salon == short_salon(row.salon)
          IN IF salon.tag = "raise"
             THEN [acc EXCEPT !.raised = TRUE]
             ELSE [acc EXCEPT !.offers = Append(@,
                                 ComebackOffer(offer_id, "TOYOTA", "CAMRY", salon.v,
                                               "not_purchased", make_mobile_link(url),
                                               "email", None, None, None))]

\* lines 264-279, one turn of the loop over the rows of a sheet; raised means
\* the exception left parse_not_purchased
RowStep(acc, row) ==
  LET url == extract_url(row.link)
      offer_id == extract_offer_id(url)
  IN IF acc.raised \/ offer_id = <<>> \/ offer_id \in acc.seen THEN acc
     ELSE LET salon == short_salon(row.salon)
          IN IF salon.tag = "raise"
             THEN [acc EXCEPT !.seen = @ \cup {offer_id}, !.raised = TRUE]
             ELSE [acc EXCEPT !.seen = @ \cup {offer_id},
                              !.offers = Append(@,
                                 ComebackOffer(offer_id, "TOYOTA", "CAMRY", salon.v,
                                               "not_purchased", make_mobile_link(url),
                                               "email", None, None, None))]

RECURSIVE RowsFrom(_, _)
RowsFrom(acc, rows) ==
  IF rows = <<>> THEN acc ELSE RowsFrom(RowStep(acc, Head(rows)), Tail(rows))

\* lines 241-282 for a workbook of one sheet
parse_not_purchased(rows) ==
  RowsFrom([seen |-> {}, offers |-> <<>>, raised |-> FALSE], rows)

\* fetch_api_comeback, lines 500-503
RECURSIVE ItemsFrom(_, _)
ItemsFrom(acc, items) ==
  IF items = <<>> \/ acc.raised THEN acc
  ELSE LET r == _parse_api_offer(Head(items))
       IN ItemsFrom(CASE r.tag = "raise" -> [acc EXCEPT !.raised = TRUE]
                      [] r.tag = "offer" -> [acc EXCEPT !.offers = Append(@, r.offer)]
                      [] OTHER -> acc,
                    Tail(items))

\* ---------------------------------------------------------------- the parsers alone
LinkCells ==
  {StrCell(<<"a", "/", "1", "-", "a">>), FormulaCell(<<"a", "/", "1", "-", "a", "/">>),
   StrCell(<<"a", "/", "1", "-", "A">>), StrCell(<<"a", "/", "2", "-", "b">>),
   StrCell(<<"a", "/", "x", "-", "a">>), NoneCell}

SalonCells ==
  {NoneCell, NumCell, StrCell(<<" ", "A", "b">>), StrCell(<<" ", " ">>),
   StrCell(<<"x", "a", " ", "b">>)}

RowPool == {Row(l, s) : l \in LinkCells, s \in SalonCells}

ItemPool ==
  {ApiItem(Id2, 2, 2, None), ApiItem(Id1Variant, NonNumeric, 2, None),
   ApiItem(Id1, 2, 0, NonNumeric), ApiItem(<<>>, NonNumeric, None, None)}

ParseStart(fn, rows, items) ==
  [pc |-> "start", fn |-> fn, rows |-> rows, items |-> items, offers |-> <<>>,
   raised |-> FALSE]

\* no run in progress
RunNotStarted ==
  /\ disk = MissingDoc
  /\ disk0 = disk
  /\ state = DefaultState
  /\ pc = "idle"
  /\ inbox = {}
  /\ emails = <<>>
  /\ new_email_ids = {}
  /\ email_offers = <<>>
  /\ api_fetched = <<>>
  /\ api_offers = <<>>
  /\ merged = <<>>
  /\ chunks = 0
  /\ chunk_i = 0
  /\ outcome = "none"
  /\ downloads = {}
  /\ clock = 0
  /\ delivered = {}
  /\ TELEGRAM_CHAT_ID = FALSE

InitParse ==
  /\ RunNotStarted
  /\ sheet \in {ParseStart("parse_not_purchased", rows, <<>>) :
                  rows \in SeqsUpTo(RowPool, MaxRows)}
               \cup {ParseStart("fetch_api_comeback", <<>>, items) :
                  items \in SeqsUpTo(ItemPool, MaxItems)}
  /\ api = NotCalled
  /\ tg = NotCalled
  /\ norm = NotCalled

\* parse_not_purchased(filepath) called on a workbook of one sheet
SheetParsed ==
  /\ sheet.pc = "start"
  /\ sheet.fn = "parse_not_purchased"
  /\ LET r == parse_not_purchased(sheet.rows)
     IN sheet' = [sheet EXCEPT !.pc = "done", !.raised = r.raised,
                               !.offers = IF r.raised THEN <<>> ELSE r.offers]
  /\ UNCHANGED <<runVars, api, tg, norm>>

\* the loop of fetch_api_comeback over the items of a page
ItemsParsed ==
  /\ sheet.pc = "start"
  /\ sheet.fn = "fetch_api_comeback"
  /\ LET r == ItemsFrom([offers |-> <<>>, raised |-> FALSE], sheet.items)
     IN sheet' = [sheet EXCEPT !.pc = "done", !.raised = r.raised,
                               !.offers = IF r.raised THEN <<>> ELSE r.offers]
  /\ UNCHANGED <<runVars, api, tg, norm>>

NextParse == SheetParsed \/ ItemsParsed

SpecParse == InitParse /\ [][NextParse]_vars

\* ---------------------------------------------------------------- normalize_offer_id alone
MaxIdLen == 3          \* length of an identifier string

IdChars == {"a", "A", "/", " "}

InitNorm ==
  /\ RunNotStarted
  /\ norm \in {[pc |-> "start", oid |-> s, result |-> <<>>, again |-> <<>>] :
                 s \in SeqsUpTo(IdChars, MaxIdLen)}
  /\ api = NotCalled
  /\ tg = NotCalled
  /\ sheet = NotCalled

\* normalize_offer_id(oid), and normalize_offer_id of its result
Normalize ==
  /\ norm.pc = "start"
  /\ norm' = [norm EXCEPT !.pc = "done",
                          !.result = normalize_offer_id(norm.oid),
                          !.again = normalize_offer_id(normalize_offer_id(norm.oid))]
  /\ UNCHANGED <<runVars, api, tg, sheet>>

NextNorm == Normalize

SpecNorm == InitNorm /\ [][NextNorm]_vars

\* ---------------------------------------------------------------- send_telegram: the chunks
ChunkLimit == 3        \* the 4000 of lines 609-612, scaled down
MaxTextLen == 8        \* length of the text given to send_telegram

TextChars == {"x", " ", "\n"}

\* 1-based positions of the line breaks among the first n characters
NewlinesWithin(text, n) == {j \in 1..n : j <= Len(text) /\ text[j] = "\n"}

Max(S) == CHOOSE m \in S : \A k \in S : k <= m

split_pos_unbounded(text) ==
  IF NewlinesWithin(text, Len(text)) = {} THEN ChunkLimit
  ELSE Max(NewlinesWithin(text, Len(text))) - 1

\* lines 610-612: text.rfind("\n", 0, 4000), or 4000 when there is none
split_pos(text) ==
  IF NewlinesWithin(text, ChunkLimit) = {} THEN ChunkLimit
  ELSE Max(NewlinesWithin(text, ChunkLimit)) - 1

InitChunk ==
  /\ RunNotStarted
  /\ tg \in {[pc |-> "loop", text0 |-> s, text |-> s, chunks |-> <<>>, cuts |-> <<>>] :
               s \in SeqsUpTo(TextChars, MaxTextLen)}
  /\ api = NotCalled
  /\ sheet = NotCalled
  /\ norm = NotCalled

\* lines 609-614: one turn of the while loop
ChunkStep ==
  /\ tg.pc = "loop"
  /\ Len(tg.text) > ChunkLimit
  /\ LET p == split_pos(tg.text)
     IN tg' = [tg EXCEPT !.chunks = Append(@, SubSeq(tg.text, 1, p)),
                         !.cuts = Append(@, [text |-> tg.text, pos |-> p]),
                         !.text = lstrip(SubSeq(tg.text, p + 1, Len(tg.text)))]
  /\ UNCHANGED <<runVars, api, sheet, norm>>

\* line 615: the rest is the last chunk
ChunkFinish ==
  /\ tg.pc = "loop"
  /\ Len(tg.text) <= ChunkLimit
  /\ tg' = [tg EXCEPT !.pc = "done", !.chunks = Append(@, tg.text)]
  /\ UNCHANGED <<runVars, api, sheet, norm>>

NextChunk == ChunkStep \/ ChunkFinish

SpecChunk == InitChunk /\ [][NextChunk]_vars

\* ---------------------------------------------------------------- properties
\* the state load_state returned at the start of the current run
Loaded == load_state(disk0)

\* run() is past line 679
PostMerge == pc \in {"decide", "sending", "sent_ok", "sent_fail", "cleanup", "done"}

\* C1: the list merge_offers(A, B) returns holds no two entries with the same
\* normalized offer id, and holds an entry for every normalized id of A or B.
C1_MergeNoDuplicateIds ==
  pc = "merge_done" =>
    /\ \A i, j \in 1..Len(merged) :
         i /= j => normalize_offer_id(merged[i].offer_id)
                     /= normalize_offer_id(merged[j].offer_id)
    /\ NormIds(merged) = NormIds(email_offers) \cup NormIds(api_offers)

\* merge_offers was given an A with two raw ids of one normalized id, and a B
\* that holds this id too, and returned fewer entries than it was given
C1_Witness ==
  /\ pc = "merge_done"
  /\ \E i, j \in 1..Len(email_offers) :
       /\ email_offers[i].offer_id /= email_offers[j].offer_id
       /\ normalize_offer_id(email_offers[i].offer_id)
            = normalize_offer_id(email_offers[j].offer_id)
       /\ normalize_offer_id(email_offers[i].offer_id) \in NormIds(api_offers)
  /\ Len(api_offers) = MaxApiOffers
  /\ Len(merged) < Len(email_offers) + Len(api_offers)

\* C2: no normalized offer id is given to the delivery channel in more than one
\* run: an offer that a run has delivered is not in the digest a later run sends.
C2_AtMostOneRunPerOffer ==
  pc = "sending" => NormIds(merged) \cap delivered = {}

\* C3: after a run whose delivery failed, the document at rest is the document
\* that was there when the run started.
C3_FailedDeliveryKeepsDocument ==
  (pc \in {"cleanup", "done"} /\ outcome = "failed") => disk = disk0

\* a run with new messages and new api offers ended after the transport took
\* one chunk and refused the next
C3_Witness ==
  /\ pc = "done"
  /\ outcome = "failed"
  /\ chunk_i >= 1
  /\ new_email_ids /= {}
  /\ api_offers /= <<>>
  /\ disk0.kind = "list"

\* C4: when the loaded state holds the id of every message found and the
\* normalized id of every offer the API returned, the merged set is empty and
\* the delivery channel is not called.
C4_KnownInputsSendNothing ==
  (/\ PostMerge
   /\ inbox \subseteq Loaded.email_message_ids
   /\ NormIds(api_fetched) \subseteq Loaded.api_offer_ids)
  => /\ merged = <<>>
     /\ pc \in {"decide", "done"}
     /\ chunks = 0
     /\ pc = "done" => outcome = "no_data"

\* a run found messages and api offers, all of them known, and ended
C4_Witness ==
  /\ pc = "done"
  /\ inbox = Msgs
  /\ Len(api_fetched) = MaxApiResponse
  /\ inbox \subseteq Loaded.email_message_ids
  /\ NormIds(api_fetched) \subseteq Loaded.api_offer_ids

\* C5: a run without a successful delivery and without new messages leaves the
\* document at rest as it was (a legacy list stays a legacy list).
C5_DocumentWrittenOnlyByCommit ==
  (pc = "done" /\ outcome /= "sent" /\ new_email_ids = {}) => disk = disk0

\* C6: after a successful delivery the document holds the loaded message ids
\* plus the ids of the new messages, and the loaded offer ids plus the
\* normalized ids of the api offers that passed the filter, and nothing else.
C6_CommitIsUnion ==
  (pc \in {"cleanup", "done"} /\ outcome = "sent") =>
    /\ disk.kind = "dict"
    /\ disk.has = AllKeys
    /\ disk.email_message_ids
         = Loaded.email_message_ids
             \cup {m \in inbox : m \notin Loaded.email_message_ids}
    /\ disk.api_offer_ids
         = Loaded.api_offer_ids
             \cup {normalize_offer_id(o.offer_id) :
                     o \in {x \in Range(api_fetched) :
                              normalize_offer_id(x.offer_id) \notin Loaded.api_offer_ids}}

\* a delivered run that had a new message with an offer the API did not return,
\* a known api offer that was filtered and a new one that was not
C6_Witness ==
  /\ pc = "done"
  /\ outcome = "sent"
  /\ new_email_ids /= {}
  /\ email_offers /= <<>>
  /\ Loaded.api_offer_ids /= {}
  /\ Len(api_offers) = 1
  /\ Len(api_fetched) = 2
  /\ NormIds(email_offers) \cap NormIds(api_offers) = {}

\* C7: the ids of new messages that produced no offer are in the document
\* after the run, whatever the API returned and however delivery went.
C7_EmptyMessagesCommitted ==
  (pc = "done" /\ new_email_ids /= {} /\ email_offers = <<>>)
    => new_email_ids \subseteq disk.email_message_ids

\* C8: no api offer with a normalized id of the loaded api_offer_ids reaches
\* the merge, and no merged entry tagged api or both has such an id.
C8_KnownApiOffersFiltered ==
  PostMerge =>
    /\ \A i \in 1..Len(api_offers) :
         normalize_offer_id(api_offers[i].offer_id) \notin Loaded.api_offer_ids
    /\ \A i \in 1..Len(merged) :
         merged[i].source \in {"api", "both"}
           => normalize_offer_id(merged[i].offer_id) \notin Loaded.api_offer_ids

\* the filter dropped a known api offer and the merged set holds an api-origin entry
C8_Witness ==
  /\ PostMerge
  /\ Len(api_offers) < Len(api_fetched)
  /\ NormIds(api_fetched) \cap Loaded.api_offer_ids /= {}
  /\ \E i \in 1..Len(merged) : merged[i].source \in {"api", "both"}

\* the value of a numeric field of a merged entry, given the field of the
\* spreadsheet record and the fields of the api records of the same id
NumericFrom(r, a, bs) ==
  IF Truthy(a) THEN r = a
  ELSE IF \E b \in bs : Truthy(b) THEN r \in {b \in bs : Truthy(b)}
  ELSE ~Truthy(r)

\* C9: for an id of both sequences the merged entry has brand, model, salon and
\* category of a spreadsheet record of that id, and each numeric field is that
\* record's value when it has one, else a value of an api record of that id.
C9_SpreadsheetAttributesWin ==
  pc = "merge_done" =>
    \A k \in NormIds(email_offers) \cap NormIds(api_offers) :
      \E i \in 1..Len(merged) :
        /\ normalize_offer_id(merged[i].offer_id) = k
        /\ \E a \in Range(email_offers) :
             LET bs == {b \in Range(api_offers) : normalize_offer_id(b.offer_id) = k}
             IN /\ normalize_offer_id(a.offer_id) = k
                /\ merged[i].offer_id = a.offer_id
                /\ merged[i].brand = a.brand
                /\ merged[i].model = a.model
                /\ merged[i].salon = a.salon
                /\ merged[i].category = a.category
                /\ NumericFrom(merged[i].price, a.price, {b.price : b \in bs})
                /\ NumericFrom(merged[i].mileage, a.mileage, {b.mileage : b \in bs})
                /\ NumericFrom(merged[i].year, a.year, {b.year : b \in bs})

\* a spreadsheet record with price and year met an api record with another
\* price and a mileage: the price stayed, the mileage was filled in
C9_Witness ==
  /\ pc = "merge_done"
  /\ \E i \in 1..Len(merged) :
       /\ merged[i].source = "both"
       /\ merged[i].brand = "KIA"
       /\ merged[i].price = 1
       /\ merged[i].mileage = 2
       /\ merged[i].year = 1
       /\ \E b \in Range(api_offers) :
            /\ normalize_offer_id(b.offer_id) = normalize_offer_id(merged[i].offer_id)
            /\ b.price = 2

\* C10: a merged entry is tagged both exactly when its normalized id is in A
\* and in B; an id of B alone is tagged api, an id of A alone keeps email.
C10_SourceTag ==
  pc = "merge_done" =>
    \A i \in 1..Len(merged) :
      LET k == normalize_offer_id(merged[i].offer_id)
          inA == k \in NormIds(email_offers)
          inB == k \in NormIds(api_offers)
      IN /\ merged[i].source = "both" <=> (inA /\ inB)
         /\ (inB /\ ~inA) => merged[i].source = "api"
         /\ (inA /\ ~inB) => merged[i].source = "email"


\* ---------------------------------------------------------------- properties of the API fetch
\* C11: a page request makes at most two HTTP attempts; when the first attempt
\* ends in HTTP 401 it is the only one and the request has failed.
C11_AtMostTwoAttempts ==
  /\ api.pc \in {"request", "returned"} => api.tries <= 2
  /\ (api.pc \in {"request", "returned"} /\ api.first = "401")
       => /\ api.tries = 1
          /\ api.pc = "returned"
          /\ api.failed_page = api.page

\* the request of the second page was answered 401 at its first attempt
C11_Witness ==
  /\ api.pc = "returned"
  /\ api.page = 2
  /\ api.first = "401"
  /\ api.failed_page = 2

\* C12: a page request that failed for another reason than HTTP 401 was
\* attempted twice before the fetch was given up.
C12_EveryOtherFailureRetriedOnce ==
  (api.pc = "returned" /\ api.failed_page /= 0 /\ api.first /= "401")
    => api.tries = 2

RECURSIVE ParsePages(_)
ParsePages(pages) ==
  IF pages = <<>> THEN <<>> ELSE ParseItems(Head(pages)) \o ParsePages(Tail(pages))

\* C13: when the request of page k fails, fetch_api_comeback returns the
\* offers of the pages 1..k-1 in order, page k is the last one requested, and
\* run() merges what was returned with the spreadsheet offers.
C13_FailedPageReturnsAccumulated ==
  (api.pc = "returned" /\ api.failed_page /= 0) =>
    /\ Len(api.pages) = api.failed_page - 1
    /\ api.requested = api.failed_page
    /\ api.all_offers = ParsePages(api.pages)
    /\ pc \in {"fetch_api", "filter", "decide"}
    /\ pc \in {"filter", "decide"} => api_fetched = ParsePages(api.pages)
    /\ pc = "decide" =>
         NormIds(merged) = NormIds(email_offers) \cup NormIds(ParsePages(api.pages))

\* the third page failed after two pages with offers, and run() has merged
\* them with a spreadsheet offer
C13_Witness ==
  /\ api.pc = "returned"
  /\ api.failed_page = 3
  /\ api.last = "neterr"
  /\ Len(api.all_offers) >= 3
  /\ email_offers /= <<>>
  /\ pc = "decide"
  /\ Len(merged) >= 2

RECURSIVE Cumulative(_)
Cumulative(pages) ==
  IF pages = <<>> THEN 0 ELSE Len(Head(pages)) + Cumulative(Tail(pages))

\* the conditions of the pagination rule, for the page received last
EndOfPages ==
  \/ Cumulative(api.pages) >= api.total
  \/ api.n_items < PageSize
  \/ api.n_items = 0

C15_LoadStateUsable ==
  pc /= "idle" =>
    /\ pc /= "raised"
    /\ state.nonlist = {}
    /\ (disk0.kind \notin {"list", "dict"} \/ disk0.nonlist /= {})
         => state = DefaultState
    /\ disk0.kind = "list"
         => state = [DefaultState EXCEPT !.email_message_ids = disk0.email_message_ids]

\* ---------------------------------------------------------------- properties of the end of a run
\* C16: on every path by which a run ends after attachments were written to
\* DOWNLOAD_DIR (sent, failed, messages without a parseable offer), the files of
\* that run are gone when the run returns.
C16_AttachmentsRemovedAtEnd ==
  (pc = "done" /\ emails /= <<>>) => downloads \cap Range(emails) = {}

\* C17: without a delivery target the digest is printed and the send step does
\* not report a failure: the run does not take the delivery-failed path.
C17_NoTargetIsNotFailure ==
  ~TELEGRAM_CHAT_ID => (pc /= "sent_fail" /\ outcome /= "failed")

\* ---------------------------------------------------------------- properties of the parsers
RowWellFormed(row) == short_salon(row.salon).tag /= "raise"

ItemWellFormed(item) == _parse_api_offer(item).tag /= "raise"

\* C18: a malformed spreadsheet row or API item causes only that record to be
\* skipped: the parser does not raise and returns the records of all other
\* rows or items.
C18_MalformedRecordSkipped ==
  sheet.pc = "done" =>
    /\ ~sheet.raised
    /\ sheet.fn = "parse_not_purchased" =>
         sheet.offers = parse_not_purchased(SelectSeq(sheet.rows, RowWellFormed)).offers
    /\ sheet.fn = "fetch_api_comeback" =>
         sheet.offers = ParseItems(SelectSeq(sheet.items, ItemWellFormed))

\* ---------------------------------------------------------------- properties of normalize_offer_id
\* lowercased, no whitespace at either end, no slash at the end
Canonical(r) ==
  /\ r = lower(r)
  /\ r /= <<>> => (~IsSpace(r[1]) /\ ~IsSpace(r[Len(r)]) /\ r[Len(r)] /= "/")

\* the strings that differ from s only in letter case, surrounding whitespace
\* and a trailing slash
Variants(s) ==
  {pre \o t \o slash \o post :
     pre \in {<<>>, <<" ">>}, t \in {s, upper(s)}, slash \in {<<>>, <<"/">>},
     post \in {<<>>, <<" ">>}}

\* C19: normalize_offer_id(s) is in canonical form, strings that differ only in
\* letter case, surrounding whitespace and a trailing slash have equal
\* normalized forms, and normalizing a normalized identifier changes nothing.
C19_NormalizeCanonical ==
  norm.pc = "done" =>
    /\ Canonical(norm.result)
    /\ norm.again = norm.result
    /\ \A t \in Variants(norm.oid) : normalize_offer_id(t) = norm.result

\* ---------------------------------------------------------------- properties of the chunks
RECURSIVE Flatten(_)
Flatten(ss) == IF ss = <<>> THEN <<>> ELSE Head(ss) \o Flatten(Tail(ss))

NonSpace(s) == SelectSeq(s, LAMBDA c : ~IsSpace(c))

\* C20: every chunk is at most the limit long; every cut is at a line break,
\* unless the text has none among its first limit characters, and then the cut
\* is at exactly the limit; the loop ends (every turn shortens the text, so the
\* turns are at most the length of the text); the characters other than
\* whitespace of the chunks, in order, are those of the text.
C20_ChunksWithinLimit ==
  tg.pc \in {"loop", "done"} =>
    /\ \A i \in 1..Len(tg.chunks) : Len(tg.chunks[i]) <= ChunkLimit
    /\ \A i \in 1..Len(tg.cuts) :
         LET c == tg.cuts[i]
         IN IF NewlinesWithin(c.text, ChunkLimit) /= {}
            THEN c.pos < ChunkLimit /\ c.text[c.pos + 1] = "\n"
            ELSE c.pos = ChunkLimit
    /\ tg.pc = "loop" => Len(tg.text) + Len(tg.chunks) <= Len(tg.text0)
    /\ tg.pc = "done" => Len(tg.chunks) = Len(tg.cuts) + 1
    /\ NonSpace(Flatten(tg.chunks) \o (IF tg.pc = "loop" THEN tg.text ELSE <<>>))
         = NonSpace(tg.text0)

\* a text cut once where it has no line break and once at a line break
C20_Witness ==
  /\ tg.pc = "done"
  /\ Len(tg.chunks) = 3
  /\ tg.cuts[1].pos = ChunkLimit
  /\ tg.cuts[2].pos < ChunkLimit
  /\ \A i \in 1..3 : tg.chunks[i] /= <<>>
  /\ " " \in Range(tg.text0)

\* ---------------------------------------------------------------- properties across runs
\* the identifiers a readable document holds
PersistedMessageIds(d) ==
  IF d.kind \in {"list", "dict"} THEN d.email_message_ids ELSE {}

PersistedApiIds(d) == IF d.kind = "dict" THEN d.api_offer_ids ELSE {}

\* C21: across any sequence of runs, whatever their outcome, every id in the
\* email_message_ids or api_offer_ids of the document before a step is still
\* in that set of the document after it.
C21_PersistedIdsOnlyGrow ==
  [][/\ PersistedMessageIds(disk) \subseteq PersistedMessageIds(disk')
     /\ PersistedApiIds(disk) \subseteq PersistedApiIds(disk')]_vars

\* a later run has rewritten a document that already held message ids and api
\* ids, and added a message id to it
C21_Witness ==
  /\ pc = "done"
  /\ clock >= 2
  /\ disk0.kind = "dict"
  /\ disk0.email_message_ids /= {}
  /\ disk0.api_offer_ids /= {}
  /\ disk /= disk0
  /\ disk0.email_message_ids \subseteq disk.email_message_ids
  /\ disk.email_message_ids /= disk0.email_message_ids

\* ---------------------------------------------------------------- properties of a parsed sheet
\* the raw offer id derived from a row
DerivedId(row) == extract_offer_id(extract_url(row.link))

\* the rows that are the first of the sheet to yield their id
FirstRows(rows) ==
  {i \in 1..Len(rows) :
     /\ DerivedId(rows[i]) /= <<>>
     /\ \A j \in 1..(i - 1) : DerivedId(rows[j]) /= DerivedId(rows[i])}

\* C22: the extractor emits at most one record per raw derived id, built from
\* the first row of the sheet that yields the id, in row order; a row whose id
\* is empty or fails the hyphen-and-digit test yields no record, and when the
\* extractor returns, every first row has its record.
C22_OneRecordPerRawId ==
  (sheet.pc = "done" /\ sheet.fn = "parse_not_purchased") =>
    LET rows == sheet.rows
        offers == sheet.offers
        src(k) == CHOOSE i \in FirstRows(rows) : DerivedId(rows[i]) = offers[k].offer_id
    IN /\ \A k \in 1..Len(offers) :
            /\ \E i \in FirstRows(rows) : DerivedId(rows[i]) = offers[k].offer_id
            /\ offers[k].salon = short_salon(rows[src(k)].salon).v
            /\ offers[k].mobile_url = make_mobile_link(extract_url(rows[src(k)].link))
       /\ \A k, l \in 1..Len(offers) : k < l => src(k) < src(l)
       /\ ~sheet.raised => Len(offers) = Cardinality(FirstRows(rows))

\* two rows yield the same id, one through a formula and a trailing slash, with
\* different salons: one record, with the salon of the first row
C22_Witness ==
  /\ sheet.pc = "done"
  /\ sheet.fn = "parse_not_purchased"
  /\ Len(sheet.rows) = 2
  /\ sheet.rows[1].link.t = "formula"
  /\ sheet.rows[2].link.t = "str"
  /\ DerivedId(sheet.rows[1]) = DerivedId(sheet.rows[2])
  /\ sheet.rows[1].salon = StrCell(<<" ", "A", "b">>)
  /\ sheet.rows[2].salon = StrCell(<<"x", "a", " ", "b">>)
  /\ Len(sheet.offers) = 1
  /\ sheet.offers[1].salon = <<"E", "K", "T">>

\* ---------------------------------------------------------------- properties of duplicate spreadsheet records
\* position of the first record of s with the normalized id k
FirstWithId(s, k) ==
  CHOOSE i \in 1..Len(s) :
    /\ normalize_offer_id(s[i].offer_id) = k
    /\ \A j \in 1..(i - 1) : normalize_offer_id(s[j].offer_id) /= k

\* C23: when several spreadsheet records have the same normalized id, the
\* merged entry of that id has brand, model, salon, category and link of the
\* first of them in sequence order.
C23_FirstSpreadsheetRecordWins ==
  pc = "merge_done" =>
    \A k \in NormIds(email_offers) :
      \E i \in 1..Len(merged) :
        LET a == email_offers[FirstWithId(email_offers, k)]
        IN /\ normalize_offer_id(merged[i].offer_id) = k
           /\ merged[i].brand = a.brand
           /\ merged[i].model = a.model
           /\ merged[i].salon = a.salon
           /\ merged[i].category = a.category
           /\ merged[i].mobile_url = a.mobile_url

====
